---- MODULE Spec2Model ----
(***************************************************************************)
(* Model of the ai-code-agent orchestration core:                          *)
(*   - src/services/ollama_utils.py  (health probe, tag lookup, warm-up)   *)
(*   - src/services/structuring.py   (fenced-block fallback extraction)    *)
(*   - src/agents/ai_code_agent.py   (setup sequence, generate_structured) *)
(*   - main.py                       (saving the generated file)           *)
(* The variable 'entry' names the operation being executed; Init draws     *)
(* its arguments and the actions draw the backend's replies.               *)
(***************************************************************************)
EXTENDS Integers, Sequences, FiniteSets, TLC

VARIABLES entry, pc, model, retries, backoff_sec, attempt, genLog,
          warmed, gets, resp, probe, healthy, warned, trace, raised,
          agent_text, structured, usedFallback, code_blk, result, out_path,
          result_obj, extracted, args, exit_status, requests, lastOutcome

callerVars == <<result_obj, extracted, args, exit_status, requests, lastOutcome>>
warmVars == <<retries, backoff_sec, attempt, genLog, warmed>>
probeVars == <<gets, resp, probe>>
setupVars == <<healthy, warned>>
structVars == <<agent_text, structured, usedFallback, code_blk, result, out_path, callerVars>>
backendVars == <<model, warmVars, probeVars, setupVars, trace, raised, callerVars>>
vars == <<entry, pc, model, retries, backoff_sec, attempt, genLog,
          warmed, gets, resp, probe, healthy, warned, trace, raised,
          agent_text, structured, usedFallback, code_blk, result, out_path,
          result_obj, extracted, args, exit_status, requests, lastOutcome>>

-----------------------------------------------------------------------------
(* Bounds of the model *)
MaxRetries == 4
MaxBackoff == 5
MaxTextLen == 4
MaxAgentLen == 3

(* Program constants *)
DefaultRetries == 2
DefaultBackoff == 5

ChatModel == "mistral:7b-instruct"
CodeModel == "codellama:7b-instruct"
Slots == {"chat", "code"}
ModelName(slot) == IF slot = "chat" THEN ChatModel ELSE CodeModel

-----------------------------------------------------------------------------
(* The backend's replies *)

(* httpx.get / httpx.post either raise a transport error or return a      *)
(* response with a status code and a body.                                *)
TransportErrors == {"ConnectError", "TimeoutException"}
Statuses == {200, 404, 500}
IsSuccess(status) == status >= 200 /\ status < 300

(* Items of the "models" list: an object with a name, or one without.     *)
NoName == "<no name>"
TagItems == {ChatModel, CodeModel, NoName}
Bodies ==
    {[kind |-> k, models |-> {}] :
        k \in {"not_json", "json_array", "object_no_models", "object_models_null"}}
    \cup {[kind |-> "object", models |-> S] : S \in SUBSET TagItems}

NoBody == [kind |-> "none", models |-> {}]
Responses ==
    {[error |-> e, status |-> 0, body |-> NoBody] : e \in TransportErrors}
    \cup {[error |-> "none", status |-> s, body |-> b] : s \in Statuses, b \in Bodies}
NoResponse == [error |-> "none", status |-> 0, body |-> NoBody]

(* Outcome of one POST /api/generate as warm-up sees it. *)
GenOutcomes == {"ok", "ConnectError", "HTTPStatusError", "TimeoutException"}
Failures == GenOutcomes \ {"ok"}

-----------------------------------------------------------------------------
(* Call results: a returned value or a raised exception *)
Return(v) == [raised |-> FALSE, exc |-> "none", value |-> v]
Raise(e) == [raised |-> TRUE, exc |-> e, value |-> FALSE]
NoCall == [raised |-> FALSE, exc |-> "pending", value |-> FALSE]

(* 'except Exception' catches every exception the try bodies can raise. *)
CaughtNarrow(exc) == exc = "ConnectError"
Caught(exc) == TRUE

(* r.raise_for_status() after httpx.get *)
GetTags(r) ==
    IF r.error # "none" THEN Raise(r.error)
    ELSE IF ~IsSuccess(r.status) THEN Raise("HTTPStatusError")
    ELSE Return(TRUE)

(* check_ollama_health: try body, then the except clause *)
HealthTry(r) == GetTags(r)

check_ollama_health(r) ==
    LET t == HealthTry(r)
    IN  IF t.raised /\ Caught(t.exc) THEN Return(FALSE) ELSE t

(* if not check_ollama_health(self.base_url): raise RuntimeError(...) *)
HealthGateInverted(h) == h
HealthGate(h) == ~h

(* model_in_tags: try body, then the except clause *)
TagsTry(r, name) ==
    LET g == GetTags(r)
    IN  IF g.raised THEN g
        ELSE IF r.body.kind = "not_json" THEN Raise("JSONDecodeError")
        ELSE IF r.body.kind = "json_array" THEN Raise("AttributeError")
        ELSE IF r.body.kind = "object_no_models" THEN Return(name \in {})
        ELSE IF r.body.kind = "object_models_null" THEN Raise("TypeError")
        ELSE Return(name \in {m \in r.body.models : m # NoName})

model_in_tags(r, name) ==
    LET t == TagsTry(r, name)
    IN  IF t.raised /\ Caught(t.exc) THEN Return(FALSE) ELSE t

-----------------------------------------------------------------------------
(* warmup_ollama *)
RECURSIVE Pow2(_)
Pow2(k) == IF k <= 0 THEN 1 ELSE 2 * Pow2(k - 1)

(* for attempt in range(1, retries + 1) *)
LoopContinuesOffByOne(a, n) == a <= n + 1
LoopContinues(a, n) == a <= n

(* if attempt < retries *)
ShouldSleepBeforeLast(a, n) == a < n - 1
ShouldSleep(a, n) == a < n

(* backoff_sec * (2 ** (attempt - 1)) *)
SleepForLinear(b, a) == b * a
SleepFor(b, a) == b * Pow2(a - 1)

(* What warm-up does, in order: POSTs to /api/generate and sleeps. *)
Post(o) == [op |-> "post", out |-> o, dur |-> 0]
Sleep(d) == [op |-> "sleep", out |-> "-", dur |-> d]

(* Where control goes when a warm-up call returns normally. *)
AfterWarmup ==
    IF entry = "warmup_ollama" THEN [pc |-> "done", model |-> model, raised |-> "none"]
    ELSE IF model = "chat" THEN [pc |-> "call_warmup", model |-> "code", raised |-> "none"]
    ELSE [pc |-> "build", model |-> model, raised |-> "none"]

(* Where control goes when an exception leaves the running call. *)
Propagate(exc) ==
    [pc |-> IF entry \in {"AICodeAgent", "main"} THEN "aborted" ELSE "done",
     model |-> model, raised |-> exc]

(* After the loop: "Giving up warming ... Proceeding anyway." *)
OnExhaustedFatal == Propagate("RuntimeError")
OnExhausted == AfterWarmup

-----------------------------------------------------------------------------
(* structuring.py: texts are sequences of tokens *)
(* the three-backquote fence *)
Fence == "<fence>"
Blank == " "
Tok == {Fence, "python", "PYTHON", "js", Blank, "x"}
Texts(n) == UNION {[1..k -> Tok] : k \in 0..n}

(* re.IGNORECASE on the literal 'python' *)
Lower(tok) == IF tok = "PYTHON" THEN "python" ELSE tok
IsPythonTag(tok) == Lower(tok) = "python"

(* (?:python)? : greedy, consumes the literal when it is there *)
AfterTag(t, j) == IF j <= Len(t) /\ IsPythonTag(t[j]) THEN j + 1 ELSE j

(* \s* : greedy *)
RECURSIVE AfterBlanks(_, _)
AfterBlanks(t, j) ==
    IF j <= Len(t) /\ t[j] = Blank THEN AfterBlanks(t, j + 1) ELSE j

(* (.*?) and the fence : the group ends at the nearest closing fence; 0 when none.    *)
(* The skipped tokens are no fences, so backtracking into the optional    *)
(* parts cannot find a match the greedy path misses.                      *)
ClosingFenceGreedy(t, j) ==
    LET ks == {k \in j..Len(t) : t[k] = Fence}
    IN  IF ks = {} THEN 0 ELSE CHOOSE k \in ks : \A l \in ks : l <= k
ClosingFence(t, j) ==
    LET ks == {k \in j..Len(t) : t[k] = Fence}
    IN  IF ks = {} THEN 0 ELSE CHOOSE k \in ks : \A l \in ks : k <= l

(* str.strip() *)
RECURSIVE Strip(_)
Strip(t) ==
    IF t = <<>> THEN t
    ELSE IF Head(t) = Blank THEN Strip(Tail(t))
    ELSE IF t[Len(t)] = Blank THEN Strip(SubSeq(t, 1, Len(t) - 1))
    ELSE t

NoneBlk == [found |-> FALSE, code |-> <<>>]
Blk(c) == [found |-> TRUE, code |-> c]

(* The pattern tried at position i of the text. *)
MatchAt(t, i) ==
    IF t[i] # Fence THEN NoneBlk
    ELSE LET j == AfterBlanks(t, AfterTag(t, i + 1))
             k == ClosingFence(t, j)
         IN  IF k = 0 THEN NoneBlk ELSE Blk(SubSeq(t, j, k - 1))

(* re.search: the leftmost position with a match; m.group(1).strip() *)
fallback_extract_code(t) ==
    LET hits == {i \in 1..Len(t) : MatchAt(t, i).found}
    IN  IF hits = {} THEN NoneBlk
        ELSE LET i == CHOOSE h \in hits : \A g \in hits : h <= g
             IN  Blk(Strip(MatchAt(t, i).code))

(* 'if not code_blk' : None and the empty string are both falsy *)
Falsy(b) == ~b.found \/ b.code = <<>>

-----------------------------------------------------------------------------
(* The text the structuring pipeline returns, and its parse *)
Keys == {"code", "description", "filename"}
DefaultFilename == <<"generated_code.py">>
FallbackDescription == "Recovered from fenced code block (fallback)."
Filenames == {<<>>, <<"a.py">>, <<"..", "/", "a.py">>, <<"/", "a.py">>, <<"d", "/", "a.py">>}

(* A coerced text: an optional "assistant:" role tag followed by junk, by  *)
(* a JSON scalar, or by a JSON object, array or string holding 'names'.    *)
Doc(k, tag, ns, fn, cn) ==
    [kind |-> k, roleTag |-> tag, names |-> ns, filename |-> fn, code_null |-> cn]
Docs ==
    {Doc(k, tag, {}, <<>>, FALSE) : k \in {"garbage", "scalar"}, tag \in BOOLEAN}
    \cup {Doc(k, tag, ns, <<>>, FALSE) :
            k \in {"array", "string"}, tag \in BOOLEAN, ns \in {Keys, {"code"}}}
    \cup {Doc("object", tag, ns, <<>>, FALSE) :
            tag \in BOOLEAN, ns \in SUBSET (Keys \ {"filename"})}
    \cup {Doc("object", tag, ns \cup {"filename"}, fn, FALSE) :
            tag \in BOOLEAN, ns \in SUBSET (Keys \ {"filename"}), fn \in Filenames}
    \cup {Doc("object", tag, Keys, fn, TRUE) : tag \in BOOLEAN, fn \in Filenames}
NoDoc == Doc("none", FALSE, {}, <<>>, FALSE)

NoPipelineRun == [kind |-> "none", exc |-> "none", doc |-> NoDoc]
PipelineText(d) == [kind |-> "text", exc |-> "none", doc |-> d]
PipelineRaise(e) == [kind |-> "raise", exc |-> e, doc |-> NoDoc]

(* text.replace("assistant:", "").strip() *)
Cleaned(d) == [d EXCEPT !.roleTag = FALSE]

(* dirtyjson.loads: junk, or a role tag left in front, does not parse *)
Loads(d) ==
    IF d.roleTag \/ d.kind = "garbage"
    THEN [raised |-> TRUE, exc |-> "dirtyjson.Error", value |-> NoDoc]
    ELSE [raised |-> FALSE, exc |-> "none", value |-> d]

robust_parse_to_dict(d) == Loads(Cleaned(d))

(* 'k not in payload' for k in ("code", "description", "filename"):        *)
(* membership in a dict's keys, a list's items or a string's substrings;   *)
(* a scalar is not iterable.                                               *)
KeyCheck(payload) ==
    IF payload.kind = "scalar" THEN "TypeError"
    ELSE IF Keys \subseteq payload.names THEN "none"
    ELSE "KeyError"

(* The try block of generate_structured *)
TryParse(d) ==
    LET p == robust_parse_to_dict(d)
    IN  IF p.raised THEN p
        ELSE IF KeyCheck(p.value) # "none"
             THEN [raised |-> TRUE, exc |-> KeyCheck(p.value), value |-> NoDoc]
             ELSE p

NoResult == [kind |-> "none", exc |-> "none", code |-> <<>>,
             description |-> "", filename |-> <<>>]
Artifact(c, d, f) == [kind |-> "artifact", exc |-> "none", code |-> c,
                      description |-> d, filename |-> f]
Failure(e) == [kind |-> "raise", exc |-> e, code |-> <<>>,
               description |-> "", filename |-> <<>>]

PayloadCode == <<"x">>
PayloadDescription == "d"

(* CodeOutput built from the unpacked payload: unpacking needs a mapping,  *)
(* and the three fields must be strings.                                   *)
CodeOutput(payload) ==
    IF payload.kind # "object" THEN Failure("TypeError")
    ELSE IF payload.code_null THEN Failure("ValidationError")
    ELSE Artifact(PayloadCode, PayloadDescription, payload.filename)

(* The except branch of generate_structured *)
Fallback(text) ==
    LET b == fallback_extract_code(text)
    IN  IF Falsy(b) THEN Failure("RuntimeError")
        ELSE Artifact(b.code, FallbackDescription, DefaultFilename)

(* os.path.join("output", result.filename) *)
PathJoin(dir, name) ==
    IF name # <<>> /\ name[1] = "/" THEN name ELSE <<dir, "/">> \o name

-----------------------------------------------------------------------------
(* structuring.py: extract_text *)
AttrOrderSwapped == <<"message", "text", "response", "content">>
AttrOrder == <<"text", "message", "response", "content">>
Attrs == {"text", "message", "response", "content"}

(* What an attribute of the result object can hold: nothing (absent), None, *)
(* a string, a number, or an object that may itself carry a content.        *)
Val(k, t, ck, ct) == [kind |-> k, text |-> t, ckind |-> ck, ctext |-> ct]
Absent == Val("absent", "", "absent", "")
AttrValues ==
    {Absent,
     Val("none", "", "absent", ""),
     Val("str", "", "absent", ""),
     Val("str", "a", "absent", ""),
     Val("number", "5", "absent", ""),
     Val("object", "", "absent", ""),
     Val("object", "", "none", ""),
     Val("object", "", "str", ""),
     Val("object", "", "str", "b")}
ResultObjects == [Attrs -> AttrValues]
NoObject == [a \in Attrs |-> Absent]

(* str(result_obj) *)
Repr == "<repr>"
Pending == "<pending>"

(* hasattr(result_obj, attr) and getattr(result_obj, attr) *)
Truthy(v) ==
    CASE v.kind = "absent" -> FALSE
      [] v.kind = "none" -> FALSE
      [] v.kind = "str" -> v.text # ""
      [] OTHER -> TRUE

(* hasattr(val, "content") and isinstance(val.content, str) *)
HasStrContent(v) == v.kind = "object" /\ v.ckind = "str"

(* The for loop over the attribute names, from position i on. *)
RECURSIVE ExtractFrom(_, _)
ExtractFrom(o, i) ==
    IF i > Len(AttrOrder) THEN Repr
    ELSE LET v == o[AttrOrder[i]]
         IN  IF ~Truthy(v) THEN ExtractFrom(o, i + 1)
             ELSE IF HasStrContent(v) THEN v.ctext
             ELSE IF v.kind = "str" THEN v.text
             ELSE ExtractFrom(o, i + 1)

extract_text(o) == ExtractFrom(o, 1)

-----------------------------------------------------------------------------
(* Command line of main.py and the process exit status *)
NoArgs == [mode |-> "none", prompt |-> ""]
Modes == {"plain", "structured", "repl"}
SingleShotPlainOnly == {"plain"}
SingleShot == {"plain", "structured"}
Prompts == {"", "p"}
Args == [mode : Modes, prompt : Prompts]
Running == -1

(* How one agent request (query, query_text, generate_structured and the  *)
(* file save after it) can end: it returns, or an exception leaves it.     *)
RequestOutcomes == {"returned", "StructuringFailed", "Exception"}
MaxRequests == 2

(* Callers that construct an AICodeAgent before anything else. *)
Constructing == {"AICodeAgent", "main"}
LoopEntries == {"_main", "streamlit_app"}

-----------------------------------------------------------------------------
EntryPoints == {"warmup_ollama", "check_ollama_health", "model_in_tags", "AICodeAgent",
                "fallback_extract_code", "generate_structured", "extract_text",
                "main", "_main", "streamlit_app"}

(* The entry points that talk to the backend during setup. *)
SetupEntryPoints == {"warmup_ollama", "AICodeAgent"}

InitFor(entries) ==
    /\ entry \in entries
    /\ pc = CASE entry = "warmup_ollama" -> "warmup"
              [] entry \in Constructing -> "health"
              [] entry \in LoopEntries -> "prompt"
              [] entry = "generate_structured" -> "query"
              [] OTHER -> "call"
    /\ model \in IF entry \in {"warmup_ollama", "model_in_tags"} THEN Slots ELSE {"chat"}
    /\ retries \in IF entry = "warmup_ollama" THEN 0..MaxRetries ELSE {DefaultRetries}
    /\ backoff_sec \in IF entry = "warmup_ollama" THEN 0..MaxBackoff ELSE {DefaultBackoff}
    /\ attempt = 1
    /\ genLog = <<>>
    /\ warmed = [s \in Slots |-> "none"]
    /\ gets = 0
    /\ resp = NoResponse
    /\ probe = NoCall
    /\ healthy = FALSE
    /\ warned = {}
    /\ trace = <<>>
    /\ raised = "none"
    /\ agent_text \in IF entry = "fallback_extract_code" THEN Texts(MaxTextLen) ELSE {<<>>}
    /\ structured = NoPipelineRun
    /\ usedFallback = FALSE
    /\ code_blk = NoneBlk
    /\ result = NoResult
    /\ out_path = <<>>
    /\ result_obj \in IF entry = "extract_text" THEN ResultObjects ELSE {NoObject}
    /\ extracted = Pending
    /\ args \in IF entry = "main" THEN Args ELSE {NoArgs}
    /\ exit_status = Running
    /\ requests = 0
    /\ lastOutcome = "none"

Init == InitFor(EntryPoints)
SetupInit == InitFor(SetupEntryPoints)

-----------------------------------------------------------------------------
(* Stand-alone calls of the two probes *)
CallCheckHealth ==
    /\ entry = "check_ollama_health" /\ pc = "call"
    /\ \E r \in Responses :
        /\ resp' = r
        /\ gets' = gets + 1
        /\ probe' = check_ollama_health(r)
    /\ pc' = "done"
    /\ UNCHANGED <<entry, model, warmVars, setupVars, trace, raised>>
    /\ UNCHANGED structVars

CallModelInTags ==
    /\ entry = "model_in_tags" /\ pc = "call"
    /\ \E r \in Responses :
        /\ resp' = r
        /\ gets' = gets + 1
        /\ probe' = model_in_tags(r, ModelName(model))
    /\ pc' = "done"
    /\ UNCHANGED <<entry, model, warmVars, setupVars, trace, raised>>
    /\ UNCHANGED structVars

-----------------------------------------------------------------------------
(* warmup_ollama: one iteration of the retry loop *)
WarmupAttempt ==
    /\ pc = "warmup"
    /\ LoopContinues(attempt, retries)
    /\ \E o \in GenOutcomes :
        /\ trace' = Append(trace, <<"generate", model>>)
        /\ IF o = "ok"
           THEN /\ genLog' = Append(genLog, Post(o))
                /\ warmed' = [warmed EXCEPT ![model] = "Succeeded"]
                /\ pc' = AfterWarmup.pc
                /\ model' = AfterWarmup.model
                /\ UNCHANGED <<attempt, raised>>
           ELSE IF ~Caught(o)
           THEN /\ genLog' = Append(genLog, Post(o))
                /\ pc' = Propagate(o).pc
                /\ raised' = Propagate(o).raised
                /\ UNCHANGED <<attempt, model, warmed>>
           ELSE /\ genLog' = IF ShouldSleep(attempt, retries)
                             THEN genLog \o <<Post(o), Sleep(SleepFor(backoff_sec, attempt))>>
                             ELSE Append(genLog, Post(o))
                /\ attempt' = attempt + 1
                /\ UNCHANGED <<pc, model, warmed, raised>>
    /\ UNCHANGED <<entry, retries, backoff_sec, probeVars, setupVars>>
    /\ UNCHANGED structVars

(* warmup_ollama: the loop is exhausted *)
WarmupGiveUp ==
    /\ pc = "warmup"
    /\ ~LoopContinues(attempt, retries)
    /\ warmed' = [warmed EXCEPT ![model] =
                    IF OnExhausted.raised = "none" THEN "GaveUp" ELSE @]
    /\ pc' = OnExhausted.pc
    /\ model' = OnExhausted.model
    /\ raised' = OnExhausted.raised
    /\ UNCHANGED <<entry, retries, backoff_sec, attempt, genLog,
                   probeVars, setupVars, trace>>
    /\ UNCHANGED structVars

-----------------------------------------------------------------------------
(* AICodeAgent.__init__ *)
SetupHealth ==
    /\ entry \in Constructing /\ pc = "health"
    /\ \E r \in Responses :
        LET h == check_ollama_health(r)
        IN  /\ gets' = gets + 1
            /\ trace' = Append(trace, <<"health", "-">>)
            /\ IF h.raised
               THEN /\ raised' = h.exc
                    /\ pc' = "aborted"
                    /\ UNCHANGED healthy
               ELSE /\ healthy' = h.value
                    /\ IF HealthGate(h.value)
                       THEN raised' = "RuntimeError" /\ pc' = "aborted"
                       ELSE pc' = "tags" /\ UNCHANGED raised
    /\ UNCHANGED <<entry, model, warmVars, resp, probe, warned>>
    /\ UNCHANGED structVars

SetupTags ==
    /\ entry \in Constructing /\ pc = "tags"
    /\ \E r \in Responses :
        LET t == model_in_tags(r, ModelName(model))
        IN  /\ gets' = gets + 1
            /\ trace' = Append(trace, <<"tags", model>>)
            /\ IF t.raised
               THEN /\ raised' = t.exc
                    /\ pc' = "aborted"
                    /\ UNCHANGED <<warned, model>>
               ELSE /\ warned' = IF t.value THEN warned ELSE warned \cup {model}
                    /\ IF model = "chat"
                       THEN model' = "code" /\ pc' = "tags"
                       ELSE model' = "chat" /\ pc' = "call_warmup"
                    /\ UNCHANGED raised
    /\ UNCHANGED <<entry, warmVars, resp, probe, healthy>>
    /\ UNCHANGED structVars

SetupCallWarmup ==
    /\ entry \in Constructing /\ pc = "call_warmup"
    /\ attempt' = 1
    /\ genLog' = <<>>
    /\ pc' = "warmup"
    /\ UNCHANGED <<entry, model, retries, backoff_sec, warmed, probeVars,
                   setupVars, trace, raised>>
    /\ UNCHANGED structVars

(* Building the LLM handles, the retriever, the tools, the agent and the   *)
(* structuring pipeline; the retriever is an external collaborator that    *)
(* may fail on its own.                                                    *)
SetupBuild ==
    /\ entry \in Constructing /\ pc = "build"
    /\ \E ok \in BOOLEAN :
        IF ok
        THEN /\ trace' = Append(trace, <<"agent", "-">>)
             /\ pc' = "ready"
             /\ UNCHANGED raised
        ELSE /\ raised' = "RetrieverError"
             /\ pc' = "failed"
             /\ UNCHANGED trace
    /\ UNCHANGED <<entry, model, warmVars, probeVars, setupVars>>
    /\ UNCHANGED structVars

-----------------------------------------------------------------------------
(* Stand-alone call of fallback_extract_code *)
CallFallbackExtract ==
    /\ entry = "fallback_extract_code" /\ pc = "call"
    /\ code_blk' = fallback_extract_code(agent_text)
    /\ pc' = "done"
    /\ UNCHANGED <<entry, backendVars, agent_text, structured, usedFallback, result, out_path>>

-----------------------------------------------------------------------------
(* AICodeAgent.generate_structured *)

(* agent_text = extract_text(self.agent.query(prompt)).  The "read ...     *)
(* content/exact" nudge only extends the prompt handed to the agent, whose *)
(* answer is drawn freely here, so the prompt itself is not kept.          *)
AgentQuery ==
    /\ entry = "generate_structured" /\ pc = "query"
    /\ \/ \E t \in Texts(MaxAgentLen) :
            /\ agent_text' = t
            /\ pc' = "pipeline"
            /\ UNCHANGED result
       \/ /\ result' = Failure("AgentError")
          /\ pc' = "done"
          /\ UNCHANGED agent_text
    /\ UNCHANGED <<entry, backendVars, structured, usedFallback, code_blk, out_path>>

(* next_result = self.pipeline.run(response=agent_text), outside the try *)
PipelineRun ==
    /\ entry = "generate_structured" /\ pc = "pipeline"
    /\ \/ \E d \in Docs :
            /\ structured' = PipelineText(d)
            /\ pc' = "parse"
            /\ UNCHANGED result
       \/ \E e \in Failures :
            /\ structured' = PipelineRaise(e)
            /\ result' = Failure(e)
            /\ pc' = "done"
    /\ UNCHANGED <<entry, backendVars, agent_text, usedFallback, code_blk, out_path>>

(* try: parse and check the keys; except: fall back; then CodeOutput(...) *)
ParseAndBuild ==
    /\ entry = "generate_structured" /\ pc = "parse"
    /\ LET p == TryParse(structured.doc)
       IN  IF p.raised
           THEN /\ usedFallback' = TRUE
                /\ code_blk' = fallback_extract_code(agent_text)
                /\ result' = Fallback(agent_text)
           ELSE /\ result' = CodeOutput(p.value)
                /\ UNCHANGED <<usedFallback, code_blk>>
    /\ pc' = "done"
    /\ UNCHANGED <<entry, backendVars, agent_text, structured, out_path>>

(* The caller saves the artifact: open(os.path.join("output", filename)) *)
SaveFile ==
    /\ entry = "generate_structured" /\ pc = "done"
    /\ result.kind = "artifact"
    /\ out_path' = PathJoin("output", result.filename)
    /\ pc' = "saved"
    /\ UNCHANGED <<entry, backendVars, agent_text, structured, usedFallback, code_blk, result>>

-----------------------------------------------------------------------------
(* Stand-alone call of extract_text *)
CallExtractText ==
    /\ entry = "extract_text" /\ pc = "call"
    /\ extracted' = extract_text(result_obj)
    /\ pc' = "done"
    /\ UNCHANGED <<entry, model, warmVars, probeVars, setupVars, trace, raised,
                   agent_text, structured, usedFallback, code_blk, result, out_path,
                   result_obj, args, exit_status, requests, lastOutcome>>

-----------------------------------------------------------------------------
(* main.py: main, after parse_args, once build_agent has raised *)
MainUncaught ==
    /\ entry = "main" /\ pc \in {"aborted", "failed"}
    /\ exit_status' = 1
    /\ pc' = "exited"
    /\ UNCHANGED <<entry, model, warmVars, probeVars, setupVars, trace, raised,
                   agent_text, structured, usedFallback, code_blk, result, out_path,
                   result_obj, extracted, args, requests, lastOutcome>>

(* main.py: main, from the mode test to its return *)
MainDispatch ==
    /\ entry = "main" /\ pc = "ready"
    /\ IF args.mode \in SingleShot
       THEN IF args.prompt = ""
            THEN /\ exit_status' = 2
                 /\ pc' = "exited"
                 /\ UNCHANGED <<requests, lastOutcome>>
            ELSE \E o \in RequestOutcomes :
                    /\ requests' = requests + 1
                    /\ lastOutcome' = IF o = "returned" THEN "returned" ELSE "caught"
                    /\ exit_status' = 0
                    /\ pc' = "exited"
       ELSE /\ pc' = "prompt"
            /\ UNCHANGED <<exit_status, requests, lastOutcome>>
    /\ UNCHANGED <<entry, model, warmVars, probeVars, setupVars, trace, raised,
                   agent_text, structured, usedFallback, code_blk, result, out_path,
                   result_obj, extracted, args>>

(* main.py: run_interactive, one turn of the while loop *)
ReplTurn ==
    /\ entry = "main" /\ pc = "prompt"
    /\ \E line \in {"q", "", "p"} :
        IF line = "q"
        THEN /\ exit_status' = 0
             /\ pc' = "exited"
             /\ UNCHANGED <<requests, lastOutcome>>
        ELSE IF line = ""
        THEN UNCHANGED <<pc, exit_status, requests, lastOutcome>>
        ELSE /\ requests < MaxRequests
             /\ \E o \in RequestOutcomes :
                    /\ requests' = requests + 1
                    /\ lastOutcome' = IF o = "returned" THEN "returned" ELSE "caught"
             /\ UNCHANGED <<pc, exit_status>>
    /\ UNCHANGED <<entry, model, warmVars, probeVars, setupVars, trace, raised,
                   agent_text, structured, usedFallback, code_blk, result, out_path,
                   result_obj, extracted, args>>

(* _main.py: main, one turn of the while loop; nothing catches here, so an *)
(* exception of agent.query leaves main and ends the process.              *)
LegacyTurn ==
    /\ entry = "_main" /\ pc = "prompt"
    /\ \E line \in {"q", "p"} :
        IF line = "q"
        THEN /\ exit_status' = 0
             /\ pc' = "exited"
             /\ UNCHANGED <<requests, lastOutcome, raised>>
        ELSE /\ requests < MaxRequests
             /\ \E o \in RequestOutcomes \ {"StructuringFailed"} :
                    /\ requests' = requests + 1
                    /\ IF o = "returned"
                       THEN /\ lastOutcome' = "returned"
                            /\ UNCHANGED <<pc, exit_status, raised>>
                       ELSE /\ lastOutcome' = "uncaught"
                            /\ raised' = o
                            /\ exit_status' = 1
                            /\ pc' = "exited"
    /\ UNCHANGED <<entry, model, warmVars, probeVars, setupVars, trace,
                   agent_text, structured, usedFallback, code_blk, result, out_path,
                   result_obj, extracted, args>>

(* streamlit_app.py: one run of the script from the two button tests on.   *)
(* Neither handler catches: an exception of the first request ends the run *)
(* before the second handler; the server then waits for the next input.    *)
StreamlitRun ==
    /\ entry = "streamlit_app" /\ pc = "prompt"
    /\ \E run_plain \in BOOLEAN, run_structured \in BOOLEAN, text \in Prompts,
          o1 \in RequestOutcomes \ {"StructuringFailed"}, o2 \in RequestOutcomes :
        LET plain == run_plain /\ text # ""
            struct == run_structured /\ text # "" /\ (plain => o1 = "returned")
            n == (IF plain THEN 1 ELSE 0) + (IF struct THEN 1 ELSE 0)
            last == IF struct THEN o2 ELSE o1
        IN  /\ requests + n <= MaxRequests
            /\ requests' = requests + n
            /\ IF n = 0
               THEN UNCHANGED <<lastOutcome, raised>>
               ELSE IF last = "returned"
               THEN lastOutcome' = "returned" /\ raised' = "none"
               ELSE lastOutcome' = "uncaught" /\ raised' = last
            /\ UNCHANGED <<pc, exit_status>>
    /\ UNCHANGED <<entry, model, warmVars, probeVars, setupVars, trace,
                   agent_text, structured, usedFallback, code_blk, result, out_path,
                   result_obj, extracted, args>>

-----------------------------------------------------------------------------
SetupNext ==
    \/ WarmupAttempt
    \/ WarmupGiveUp
    \/ SetupHealth
    \/ SetupTags
    \/ SetupCallWarmup
    \/ SetupBuild

Next ==
    \/ CallFallbackExtract
    \/ AgentQuery
    \/ PipelineRun
    \/ ParseAndBuild
    \/ SaveFile
    \/ CallCheckHealth
    \/ CallModelInTags
    \/ CallExtractText
    \/ MainUncaught
    \/ MainDispatch
    \/ ReplTurn
    \/ LegacyTurn
    \/ StreamlitRun
    \/ SetupNext

Spec == Init /\ [][Next]_vars

(* Warm-up and setup alone; a running call is always scheduled on. *)
FairSpec == SetupInit /\ [][SetupNext]_vars /\ WF_vars(SetupNext)

-----------------------------------------------------------------------------
(* Warm-up: what the claims observe *)
Posts == SelectSeq(genLog, LAMBDA e : e.op = "post")
Sleeps == SelectSeq(genLog, LAMBDA e : e.op = "sleep")

(* The latest warm-up call has returned and its log is still in view. *)
WarmupReturned ==
    \/ entry = "warmup_ollama" /\ pc = "done"
    \/ entry = "AICodeAgent" /\ pc = "call_warmup" /\ model = "code"
    \/ entry = "AICodeAgent" /\ pc = "build"
LastSlot ==
    IF entry = "AICodeAgent" /\ pc = "call_warmup" /\ model = "code" THEN "chat" ELSE model
AlwaysFailed == \A i \in 1..Len(Posts) : Posts[i].out \in Failures

(* C1: against a backend whose generate call always fails, warm-up with   *)
(* retries n >= 1 and backoff b posts exactly n times, sleeps exactly n-1  *)
(* times, the k-th sleep lasting b * 2^(k-1), each sleep between two       *)
(* posts and none after the last one, then returns GaveUp without raising. *)
C1_BackoffSchedule ==
    (WarmupReturned /\ retries >= 1 /\ AlwaysFailed) =>
        /\ Len(Posts) = retries
        /\ Len(Sleeps) = retries - 1
        /\ Len(genLog) = 2 * retries - 1
        /\ \A i \in 1..Len(genLog) :
              IF i % 2 = 1
              THEN genLog[i].op = "post"
              ELSE genLog[i].op = "sleep"
                   /\ genLog[i].dur = backoff_sec * 2^((i \div 2) - 1)
        /\ warmed[LastSlot] = "GaveUp"
        /\ raised = "none"

C1_Witness ==
    /\ entry = "warmup_ollama" /\ pc = "done"
    /\ retries = 3 /\ backoff_sec = 5
    /\ AlwaysFailed
    /\ warmed[model] = "GaveUp"
    /\ Len(Sleeps) = 2 /\ Sleeps[1].dur = 5 /\ Sleeps[2].dur = 10
    /\ genLog[Len(genLog)].op = "post"

(* C2: whatever the backend answers, warm-up makes at most 'retries'       *)
(* generate calls, no exception leaves it, and every started warm-up       *)
(* returns, with Succeeded or GaveUp.                                      *)
NoWarmupError ==
    raised # "none" =>
        /\ entry = "AICodeAgent"
        /\ (pc = "aborted" /\ genLog = <<>>) \/ pc = "failed"
C2_WarmupBounded ==
    /\ [](/\ Len(Posts) <= retries
          /\ NoWarmupError
          /\ WarmupReturned => warmed[LastSlot] \in {"Succeeded", "GaveUp"})
    /\ (pc = "warmup") ~> WarmupReturned

C2_Witness ==
    /\ entry = "warmup_ollama" /\ pc = "done" /\ raised = "none"
    /\ warmed[model] = "Succeeded"
    /\ Len(Posts) = retries
    /\ {Posts[i].out : i \in 1..Len(Posts)} = {"ok", "ConnectError", "TimeoutException"}

-----------------------------------------------------------------------------
(* Setup sequence: what the claims observe *)
Rank(e) ==
    CASE e = <<"health", "-">> -> 1
      [] e = <<"tags", "chat">> -> 2
      [] e = <<"tags", "code">> -> 3
      [] e = <<"generate", "chat">> -> 4
      [] e = <<"generate", "code">> -> 5
      [] e = <<"agent", "-">> -> 6
      [] OTHER -> 0

(* C3: a failed initial health check aborts construction with the          *)
(* unreachable-backend error before any tag lookup, warm-up call or        *)
(* construction step, and no other backend outcome makes setup fail.       *)
C3_HealthAbort ==
    entry = "AICodeAgent" =>
        /\ pc = "aborted" =>
              /\ ~healthy
              /\ raised = "RuntimeError"
              /\ trace = << <<"health", "-">> >>
              /\ gets = 1
              /\ warned = {}
              /\ genLog = <<>>
              /\ \A s \in Slots : warmed[s] = "none"
        /\ (trace # <<>> /\ ~healthy) => pc = "aborted"
        /\ (raised # "none" /\ pc # "aborted") =>
              (raised = "RetrieverError" /\ pc = "failed")

C3_Witness ==
    /\ entry = "AICodeAgent" /\ pc = "aborted"
    /\ raised = "RuntimeError" /\ ~healthy
    /\ trace = << <<"health", "-">> >>

(* C10: once the health check has succeeded, setup talks to the backend in *)
(* the order health, tags(chat), tags(code), generate(chat)...,            *)
(* generate(code)..., never aborts, and reaches the construction step      *)
(* whatever the tag lookups and the warm-ups returned.                     *)
OrderOK(t) ==
    /\ t # <<>> => t[1] = <<"health", "-">>
    /\ \A i \in 1..(Len(t) - 1) :
          Rank(t[i + 1]) \in IF Rank(t[i]) < 4 THEN {Rank(t[i]) + 1}
                             ELSE {Rank(t[i]), Rank(t[i]) + 1}
C10_SetupOrder ==
    /\ []((entry = "AICodeAgent" /\ healthy) =>
            /\ pc # "aborted"
            /\ OrderOK(trace)
            /\ pc = "build" => Rank(trace[Len(trace)]) = 5)
    /\ (entry = "AICodeAgent" /\ healthy /\ pc \notin {"ready", "failed"}) ~> (pc = "build")

C10_Witness ==
    /\ entry = "AICodeAgent" /\ pc = "build"
    /\ warned = Slots
    /\ \A s \in Slots : warmed[s] = "GaveUp"
    /\ Len(trace) = 3 + 2 * DefaultRetries

-----------------------------------------------------------------------------
(* Probes: what the claims observe *)
ProbeDone == entry \in {"check_ollama_health", "model_in_tags"} /\ pc = "done"
CallFailed(r) == r.error # "none" \/ ~IsSuccess(r.status)
MalformedKinds == {"not_json", "json_array", "object_models_null"}
Malformed(r) == ~CallFailed(r) /\ r.body.kind \in MalformedKinds

(* C9 as stated: neither probe raises, each makes one list-models call,    *)
(* each returns false when the backend is unreachable, answers with a      *)
(* non-success status, times out or sends a malformed body, and the        *)
(* health probe returns true only when the call succeeds.                  *)
C9_AsStated ==
    ProbeDone =>
        /\ ~probe.raised
        /\ gets = 1
        /\ (CallFailed(resp) \/ Malformed(resp)) => ~probe.value
        /\ (entry = "check_ollama_health" /\ probe.value) => ~CallFailed(resp)

(* C9 amended: neither probe raises, each makes one list-models call, each *)
(* returns false when the backend is unreachable, answers with a           *)
(* non-success status or times out; the tag lookup also returns false on   *)
(* a malformed body, while the health probe never reads the body and       *)
(* returns true exactly when the reply has a success status.               *)
C9_Probes ==
    ProbeDone =>
        /\ ~probe.raised
        /\ gets = 1
        /\ CallFailed(resp) => ~probe.value
        /\ (entry = "model_in_tags" /\ Malformed(resp)) => ~probe.value
        /\ entry = "check_ollama_health" => (probe.value <=> ~CallFailed(resp))

C9_Witness ==
    /\ entry = "check_ollama_health" /\ pc = "done"
    /\ resp.error = "none" /\ resp.status = 200 /\ resp.body.kind = "not_json"
    /\ probe.value /\ ~probe.raised

-----------------------------------------------------------------------------
(* Fenced blocks: what the claims observe *)
FencePositions(t) == {i \in 1..Len(t) : t[i] = Fence}
HasBlock(t) == Cardinality(FencePositions(t)) >= 2
OpeningFence(t) == CHOOSE i \in FencePositions(t) : \A j \in FencePositions(t) : i <= j
NextFence(t) ==
    CHOOSE k \in FencePositions(t) \ {OpeningFence(t)} :
        \A j \in FencePositions(t) \ {OpeningFence(t)} : k <= j
FirstBlockInner(t) == SubSeq(t, OpeningFence(t) + 1, NextFence(t) - 1)

LangTags == {"python", "PYTHON", "js"}
DropAnyTag(body) == IF body # <<>> /\ Head(body) \in LangTags THEN Tail(body) ELSE body
DropPythonTag(body) ==
    IF body # <<>> /\ Head(body) \in {"python", "PYTHON"} THEN Tail(body) ELSE body
Trimmed(body) ==
    LET solid == {i \in 1..Len(body) : body[i] # Blank}
    IN  IF solid = {} THEN <<>>
        ELSE SubSeq(body, CHOOSE a \in solid : \A i \in solid : a <= i,
                          CHOOSE b \in solid : \A i \in solid : i <= b)

ExtractDone == entry = "fallback_extract_code" /\ pc = "done"

(* C7 as stated: for every text with a fenced block, fallback extraction   *)
(* returns the first block's inner content, trimmed, without the language  *)
(* tag that follows the opening fence, whatever language the tag names.    *)
C7_AsStated ==
    (ExtractDone /\ HasBlock(agent_text)) =>
        /\ code_blk.found
        /\ code_blk.code = Trimmed(DropAnyTag(FirstBlockInner(agent_text)))

(* C7 amended: for every text with a fenced block, fallback extraction     *)
(* returns the first block's inner content, trimmed, without a 'python'    *)
(* tag (in any letter case) that directly follows the opening fence; any   *)
(* other tag is not recognised and stays at the head of the returned code. *)
C7_FirstBlock ==
    (ExtractDone /\ HasBlock(agent_text)) =>
        /\ code_blk.found
        /\ code_blk.code = Trimmed(DropPythonTag(FirstBlockInner(agent_text)))

C7_Witness ==
    /\ ExtractDone
    /\ agent_text = <<Fence, "PYTHON", "x", Fence>>
    /\ code_blk = Blk(<<"x">>)

-----------------------------------------------------------------------------
(* generate_structured: what the claims observe *)
StructuredDone ==
    /\ entry = "generate_structured"
    /\ pc \in {"done", "saved"}
    /\ structured.kind # "none"

(* Steps 1 to 3 of the recovery pipeline, as the specification words them: *)
(* the coercion request fails; the coerced text, its role tag stripped,    *)
(* does not parse; the parsed payload does not hold all three keys.        *)
CoercionFailed == structured.kind = "raise"
ParseFailed == structured.kind = "text" /\ structured.doc.kind = "garbage"
HoldsAllKeys(d) == d.kind = "object" /\ Keys \subseteq d.names
ValidationFailed ==
    structured.kind = "text" /\ ~ParseFailed /\ ~HoldsAllKeys(structured.doc)

RawBlockBody == Trimmed(DropPythonTag(FirstBlockInner(agent_text)))
FallbackArtifact == Artifact(RawBlockBody, FallbackDescription, DefaultFilename)
IsFallbackArtifact(r) ==
    r.kind = "artifact" /\ r.description = FallbackDescription /\ r.filename = DefaultFilename

(* C4: when the coercion request, the parse or the field validation fails  *)
(* and the raw agent text holds a fenced block with a body, the result is  *)
(* the fallback artifact cut from the raw text, not an error.              *)
C4_FallbackOnAnyFailure ==
    (/\ StructuredDone
     /\ CoercionFailed \/ ParseFailed \/ ValidationFailed
     /\ HasBlock(agent_text)
     /\ RawBlockBody # <<>>) => result = FallbackArtifact

(* C5: a parsed payload that lacks one of the keys code, description,      *)
(* filename makes generate_structured fall through to fallback extraction, *)
(* and every returned artifact is built from a payload holding all three   *)
(* keys or is the fallback artifact.                                       *)
C5_AllOrNothing ==
    StructuredDone =>
        /\ ValidationFailed => usedFallback
        /\ result.kind = "artifact" =>
              \/ ~usedFallback /\ HoldsAllKeys(structured.doc)
              \/ usedFallback /\ IsFallbackArtifact(result)

(* C6: when the raw agent text holds no fenced block and the coerced text  *)
(* fails the parse or the field validation, generate_structured raises the *)
(* structuring failure and returns no artifact.                            *)
C6_TerminalFailure ==
    (/\ StructuredDone
     /\ ParseFailed \/ ValidationFailed
     /\ ~HasBlock(agent_text)) => result = Failure("RuntimeError")

(* C8: every artifact generate_structured returns has a non-empty filename *)
(* without path separators or parent references, and the file the caller   *)
(* writes lies directly inside output/.                                    *)
LegalFilename(f) == f # <<>> /\ \A i \in 1..Len(f) : f[i] \notin {"/", ".."}
DirectlyInside(dir, path) ==
    Len(path) = 3 /\ path[1] = dir /\ path[2] = "/" /\ path[3] \notin {"/", ".."}
C8_SafeFilename ==
    entry = "generate_structured" =>
        /\ result.kind = "artifact" => LegalFilename(result.filename)
        /\ pc = "saved" => DirectlyInside("output", out_path)

-----------------------------------------------------------------------------
(* C14: when the first successful generate call of a warm-up is attempt k, *)
(* the warm-up has posted exactly k times and slept exactly k-1 times,     *)
(* once after each failed attempt for backoff_sec * 2^(j-1), it returns    *)
(* Succeeded, and the successful post is the last thing it did.            *)
C14_SuccessAtAttemptK ==
    (WarmupReturned /\ \E i \in 1..Len(Posts) : Posts[i].out = "ok") =>
        LET k == Len(Posts)
        IN  /\ 1 <= k /\ k <= retries
            /\ Posts[k].out = "ok"
            /\ \A j \in 1..(k - 1) : Posts[j].out \in Failures
            /\ Len(Sleeps) = k - 1
            /\ \A j \in 1..(k - 1) : Sleeps[j].dur = backoff_sec * 2^(j - 1)
            /\ Len(genLog) = 2 * k - 1
            /\ \A i \in 1..Len(genLog) :
                  genLog[i].op = IF i % 2 = 1 THEN "post" ELSE "sleep"
            /\ warmed[LastSlot] = "Succeeded"
            /\ raised = "none"

C14_Witness ==
    /\ entry = "warmup_ollama" /\ pc = "done"
    /\ retries = 4 /\ backoff_sec = 5
    /\ warmed[model] = "Succeeded"
    /\ Len(Posts) = 3 /\ Posts[3].out = "ok"
    /\ Len(Sleeps) = 2 /\ Sleeps[1].dur = 5 /\ Sleeps[2].dur = 10
    /\ genLog[Len(genLog)] = Post("ok")

-----------------------------------------------------------------------------
(* extract_text: what the claims observe *)
ExtractTextDone == entry = "extract_text" /\ pc = "done"
First(S) == CHOOSE i \in S : \A j \in S : i <= j

(* C12 as stated: the attributes text, message, response, content are      *)
(* tried in that order; for the first one the object has, the value itself *)
(* is returned if it is a string, or its content if it is a wrapper with a *)
(* string content; with none of the attributes the result is str(object).  *)
PresentAttrs == {i \in 1..4 : result_obj[AttrOrder[i]].kind # "absent"}
C12_AsStated ==
    ExtractTextDone =>
        IF PresentAttrs = {} THEN extracted = Repr
        ELSE LET v == result_obj[AttrOrder[First(PresentAttrs)]]
             IN  /\ v.kind = "str" => extracted = v.text
                 /\ (v.kind = "object" /\ v.ckind = "str") => extracted = v.ctext

(* C12 amended: the attributes are tried in that order and the first one   *)
(* that is present, truthy and either a string or a wrapper with a string  *)
(* content decides: the string itself, or the wrapper's content; absent,   *)
(* empty, None and other values are skipped, and when no attribute         *)
(* qualifies the result is str(object).                                    *)
Qualifies(v) ==
    \/ v.kind = "str" /\ v.text # ""
    \/ v.kind = "object" /\ v.ckind = "str"
StatedOrder == <<"text", "message", "response", "content">>
QualifyingAttrs == {i \in 1..4 : Qualifies(result_obj[StatedOrder[i]])}
C12_ExtractText ==
    ExtractTextDone =>
        IF QualifyingAttrs = {} THEN extracted = Repr
        ELSE LET v == result_obj[StatedOrder[First(QualifyingAttrs)]]
             IN  extracted = IF v.kind = "str" THEN v.text ELSE v.ctext

C12_Witness ==
    /\ ExtractTextDone
    /\ result_obj["text"].kind = "str" /\ result_obj["text"].text = ""
    /\ result_obj["message"].kind = "object" /\ result_obj["message"].ctext = "b"
    /\ result_obj["response"].kind = "str" /\ result_obj["response"].text = "a"
    /\ extracted = "b"

-----------------------------------------------------------------------------
(* main.py command line: what the claims observe *)
NoPromptGiven == entry = "main" /\ args.mode \in {"plain", "structured"} /\ args.prompt = ""
Exited == pc = "exited"

(* C13 as stated: in the CLI, whenever the mode is plain or structured and no        *)
(* --prompt argument is given, the process exits with status 2 and has     *)
(* issued no agent request, whatever the state of the backend.             *)
C13_ExitTwoWithoutPrompt ==
    /\ NoPromptGiven => requests = 0
    /\ (NoPromptGiven /\ Exited) => exit_status = 2

(* C13 amended: in the CLI, whenever the mode is plain or structured and  *)
(* no --prompt argument is given, no agent request is ever issued, and     *)
(* the process exits with status 2 once the agent has been constructed;    *)
(* when construction raises (backend unreachable, retriever failure) the   *)
(* process ends with that error, status 1, before the prompt is looked at. *)
AgentBuilt == trace # <<>> /\ trace[Len(trace)] = <<"agent", "-">>
C13_ExitTwoOnceBuilt ==
    /\ NoPromptGiven => requests = 0 /\ lastOutcome = "none"
    /\ (NoPromptGiven /\ Exited) =>
          /\ exit_status \in {1, 2}
          /\ exit_status = 2 <=> (AgentBuilt /\ raised = "none")
          /\ exit_status = 1 <=> (~AgentBuilt /\ raised # "none")

C13_Witness ==
    /\ NoPromptGiven /\ Exited
    /\ args.mode = "structured"
    /\ healthy /\ AgentBuilt
    /\ exit_status = 2
    /\ requests = 0

-----------------------------------------------------------------------------
(* Caller-facing entry points: what the claims observe *)
CallerEntries == {"main", "_main", "streamlit_app"}
RequestFailed == entry \in CallerEntries /\ lastOutcome \in {"caught", "uncaught"}
AcceptsInput == pc = "prompt" /\ exit_status = Running

(* C11: every caller-facing entry point (the REPL loop, the single-shot    *)
(* CLI, the UI handlers) catches any exception of a single request: after  *)
(* a failed request the exception has been caught by the entry point, the  *)
(* process has not been ended by it, and an entry point that loops is      *)
(* waiting for the next prompt.                                            *)
C11_CatchAndContinue ==
    RequestFailed =>
        /\ lastOutcome = "caught"
        /\ exit_status # 1
        /\ (entry = "main" /\ args.mode \in {"plain", "structured"}) \/ AcceptsInput \/
           (pc = "exited" /\ exit_status = 0)

====
